---- MODULE Spec2Model ----
(***************************************************************************)
(* VideoLens AI: the frame capture / sequential analysis pipeline of the   *)
(* App component (src/unnamed/part_000) and the retrying analysis client   *)
(* (src/services/geminiService.ts).                                        *)
(*                                                                         *)
(* JavaScript runs one task at a time, so every action below is one task:  *)
(* an event handler or the continuation of an await, together with the     *)
(* React render it causes and the re-run of the reconciliation effect      *)
(* (useEffect on [frames, isProcessing, processFrame]) that follows it.    *)
(*                                                                         *)
(* Numbers: durations and intervals are whole seconds.  progress is the    *)
(* exact rational <<num, den>> of the float the code computes; <<1, 0>>    *)
(* is +Infinity (a division by zero).  Rounding of floats is monotone and  *)
(* exact on the values compared with 100, so order and equality agree.     *)
(* A frame id (crypto.randomUUID()) is the pair <<run, n>> of the n-th      *)
(* frame captured by the loop of that run: fresh, as a UUID is.            *)
(* Data nothing can read any more is dropped: the locals of a finished     *)
(* startAnalysis, the frame id of a call whose frame was discarded, the     *)
(* seek target and duration of the element once the seek or load is over.  *)
(***************************************************************************)
EXTENDS Integers, Sequences, FiniteSets, TLC

\* ---- bounds of the model ----
MaxRuns == 2          \* number of times start is pressed
MaxDuration == 3      \* longest video, seconds
MaxInterval == 2      \* largest interval typed into the input
MaxReplies == 5       \* longest run of answers of the external call to one invocation

\* ---- program constants ----
DefaultInterval == 3
maxRetries == 3
NoVideo == -1         \* videoSrc === null
NoId == <<0, 0>>      \* no frame

PENDING == "PENDING"
ANALYZING == "ANALYZING"
COMPLETED == "COMPLETED"
ERROR == "ERROR"

VARIABLES
    videoSrc,         \* NoVideo, or the selected file (named by its duration)
    frames,           \* useState<VideoFrame[]>
    isProcessing,     \* useState(false)
    progress,         \* useState(0), as a rational
    config,           \* config.interval
    cur,              \* abortControllerRef.current: 0 = null, else the run that made it
    aborted,          \* signal.aborted of the controller of each run
    loops,            \* the startAnalysis invocation of each run
    video,            \* the shared <video> element of videoRef: the load and the
                      \* seek in progress (zeros when there is none)
    timer,            \* id of the frame the armed 1s timer will process, or NoId
    calls,            \* ids of the listed frames whose generateImagePrompt call is in flight
    staleCalls,       \* number of calls in flight whose frame has been discarded
    lastCall,         \* the invocation the last step settled, NoCall if it settled none
    stoppedAnalyzing  \* history: ids of the listed frames that were Analyzing at the last stop

vars == <<videoSrc, frames, isProcessing, progress, config, cur, aborted, loops,
          video, timer, calls, staleCalls, lastCall, stoppedAnalyzing>>

Runs == 1..MaxRuns

\* ---- arithmetic ----
RECURSIVE GCD(_, _)
GCD(a, b) == IF b = 0 THEN a ELSE GCD(b, a % b)

Ratio(n, d) ==
    IF d = 0 THEN <<1, 0>>
    ELSE LET g == GCD(n, d) IN IF g = 0 THEN <<0, 1>> ELSE <<n \div g, d \div g>>

ProgressLE(a, b) ==
    IF b[2] = 0 THEN TRUE
    ELSE IF a[2] = 0 THEN FALSE
    ELSE a[1] * b[2] <= b[1] * a[2]

Max(a, b) == IF a >= b THEN a ELSE b

\* ---- the frame list ----
IsTerminal(f) == f.status = COMPLETED \/ f.status = ERROR

IsAnalyzingNever(fs) == FALSE

IsAnalyzing(fs) == \E i \in 1..Len(fs) : fs[i].status = ANALYZING

PendingIdx(fs) == {i \in 1..Len(fs) : fs[i].status = PENDING}

FindPendingLast(fs) == CHOOSE i \in PendingIdx(fs) : \A j \in PendingIdx(fs) : j <= i

FindPending(fs) == CHOOSE i \in PendingIdx(fs) : \A j \in PendingIdx(fs) : i <= j

AllCompletedVacuous(fs) == \A i \in 1..Len(fs) : IsTerminal(fs[i])

AllCompleted(fs) == Len(fs) > 0 /\ \A i \in 1..Len(fs) : IsTerminal(fs[i])

CompletedCount(fs) == Cardinality({i \in 1..Len(fs) : IsTerminal(fs[i])})

MarkAnalyzing(fs, id) ==
    [i \in 1..Len(fs) |->
        IF fs[i].id = id THEN [fs[i] EXCEPT !.status = ANALYZING] ELSE fs[i]]

MarkCompleted(fs, id, prompt) ==
    [i \in 1..Len(fs) |->
        IF fs[i].id = id
        THEN [fs[i] EXCEPT !.status = COMPLETED, !.prompt = prompt]
        ELSE fs[i]]

MarkErrorAll(fs, id, msg) ==
    [i \in 1..Len(fs) |-> [fs[i] EXCEPT !.status = ERROR, !.errorMessage = msg]]

MarkError(fs, id, msg) ==
    [i \in 1..Len(fs) |->
        IF fs[i].id = id
        THEN [fs[i] EXCEPT !.status = ERROR, !.errorMessage = msg]
        ELSE fs[i]]

\* ---- the reconciliation effect ----
\* What the effect leaves behind when it runs on a committed state: the armed
\* timer (the previous one is always cleared by the cleanup), isProcessing and
\* progress.  When it clears isProcessing it runs once more and returns at its
\* first guard, which arms nothing.
HaltedNever(proc, curAborted) == FALSE

\* The two early returns: not processing, or the current signal is aborted.
Halted(proc, curAborted) == ~proc \/ curAborted

Effect(fs, proc, curAborted, prog) ==
    IF Halted(proc, curAborted)
    THEN [timer |-> NoId, isProcessing |-> proc, progress |-> prog]
    ELSE IF IsAnalyzing(fs) THEN [timer |-> NoId, isProcessing |-> proc, progress |-> prog]
    ELSE IF PendingIdx(fs) # {}
         THEN [timer |-> fs[FindPending(fs)].id, isProcessing |-> proc, progress |-> prog]
    ELSE IF AllCompleted(fs)
         THEN [timer |-> NoId, isProcessing |-> FALSE, progress |-> <<100, 1>>]
    ELSE IF Len(fs) > 0
         THEN [timer |-> NoId, isProcessing |-> proc,
               progress |-> Ratio(50 * Len(fs) + 50 * CompletedCount(fs), Len(fs))]
    ELSE [timer |-> NoId, isProcessing |-> proc, progress |-> prog]

CurAborted(c, ab) == c # 0 /\ ab[c]

\* Commit a render with the given state and run the effect on it.
CommitNoCleanup(fs, proc, prog, c, ab) ==
    LET e == Effect(fs, proc, CurAborted(c, ab), prog) IN
    /\ frames' = fs
    /\ isProcessing' = e.isProcessing
    /\ progress' = e.progress
    /\ timer' = IF e.timer = NoId THEN timer ELSE e.timer

Commit(fs, proc, prog, c, ab) ==
    LET e == Effect(fs, proc, CurAborted(c, ab), prog) IN
    /\ frames' = fs
    /\ isProcessing' = e.isProcessing
    /\ progress' = e.progress
    /\ timer' = e.timer

\* ---- initial state ----
\* The locals of a startAnalysis invocation.  An invocation that has returned
\* ("done", "noctx") or whose awaited promise can no longer be resolved
\* ("orphan") has no locals left.
IdleLoop == [pc |-> "idle", time |-> 0, capturedCount |-> 0, totalFrames |-> 0,
             duration |-> 0, interval |-> 0]

DoneLoop == [IdleLoop EXCEPT !.pc = "done"]

OrphanLoop == [IdleLoop EXCEPT !.pc = "orphan"]

IdleVideo == [duration |-> 0, seeking |-> FALSE, currentTime |-> 0,
              metaWaiter |-> 0, metaPending |-> FALSE]

NoCall == [pc |-> "none", retries |-> 0, attempts |-> 0, replies |-> <<>>,
           waits |-> <<>>, result |-> "none"]

Init ==
    /\ videoSrc = NoVideo
    /\ frames = <<>>
    /\ isProcessing = FALSE
    /\ progress = <<0, 1>>
    /\ config = [interval |-> DefaultInterval]
    /\ cur = 0
    /\ aborted = [r \in Runs |-> FALSE]
    /\ loops = [r \in Runs |-> IdleLoop]
    /\ video = IdleVideo
    /\ timer = NoId
    /\ calls = {}
    /\ staleCalls = 0
    /\ lastCall = NoCall
    /\ stoppedAnalyzing = {}

\* ---- user actions ----
\* setFrames([]): the calls in flight lose their frames.  The frame id of such
\* a call matches no later frame, so only their number is kept.
Discard ==
    /\ calls' = {}
    /\ staleCalls' = staleCalls + Cardinality(calls)

\* The file and the interval matter to the next start only; they are offered
\* while the model can still start a run.
\* The uploader is rendered only while no file is selected.
handleFileSelected(d) ==
    /\ videoSrc = NoVideo
    /\ cur < MaxRuns
    /\ videoSrc' = d
    /\ Commit(<<>>, FALSE, <<0, 1>>, cur, aborted)
    /\ Discard
    /\ lastCall' = NoCall
    /\ UNCHANGED <<config, cur, aborted, loops, video, stoppedAnalyzing>>

\* The clear button is rendered with the file and disabled while processing.
reset ==
    /\ videoSrc # NoVideo
    /\ ~isProcessing
    /\ videoSrc' = NoVideo
    /\ aborted' = IF cur # 0 THEN [aborted EXCEPT ![cur] = TRUE] ELSE aborted
    /\ Commit(<<>>, FALSE, <<0, 1>>, cur, aborted')
    /\ lastCall' = NoCall
    /\ stoppedAnalyzing' = {}
    /\ Discard
    /\ UNCHANGED <<config, cur, loops, video>>

\* What the interval input can deliver: a negative number, an empty or zero
\* value, a number of seconds.
IntervalInputs == {-1, 0} \cup 2..MaxInterval

\* onChange of the interval input: parseInt(value) || 3; disabled while processing.
SetInterval(v) ==
    /\ videoSrc # NoVideo
    /\ ~isProcessing
    /\ cur < MaxRuns
    /\ config' = [interval |-> IF v = 0 THEN DefaultInterval ELSE v]
    /\ lastCall' = NoCall
    /\ UNCHANGED <<videoSrc, frames, isProcessing, progress, cur, aborted, loops,
                   video, timer, calls, staleCalls, stoppedAnalyzing>>

\* The start button is rendered while not processing.  ctxOk: getContext('2d')
\* returned a context.
startAnalysis(ctxOk) ==
    /\ videoSrc # NoVideo
    /\ ~isProcessing
    /\ cur < MaxRuns
    /\ cur' = cur + 1
    /\ stoppedAnalyzing' = {}
    /\ IF ctxOk
       THEN /\ loops' = [r \in Runs |->
                            IF r = cur'
                            THEN [IdleLoop EXCEPT !.pc = "meta",
                                                  !.interval = Max(1, config.interval)]
                            ELSE IF loops[r].pc = "meta" THEN OrphanLoop
                            ELSE loops[r]]
            /\ video' = [video EXCEPT !.duration = videoSrc, !.seeking = FALSE,
                            !.currentTime = 0, !.metaWaiter = cur',
                            !.metaPending = TRUE]
       ELSE /\ loops' = [loops EXCEPT ![cur'] = [IdleLoop EXCEPT !.pc = "noctx"]]
            /\ video' = video
    /\ Commit(<<>>, TRUE, <<0, 1>>, cur', aborted)
    /\ Discard
    /\ lastCall' = NoCall
    /\ UNCHANGED <<videoSrc, config, aborted>>

\* The stop button is rendered while processing.
stopAnalysis ==
    /\ isProcessing
    /\ aborted' = IF cur # 0 THEN [aborted EXCEPT ![cur] = TRUE] ELSE aborted
    /\ stoppedAnalyzing' = {frames[i].id : i \in {j \in 1..Len(frames) :
                                                    frames[j].status = ANALYZING}}
    /\ Commit(frames, FALSE, progress, cur, aborted')
    /\ lastCall' = NoCall
    /\ UNCHANGED <<videoSrc, config, cur, loops, video, calls, staleCalls>>

\* ---- the capture loop of startAnalysis ----
CaptureStepPrepend(r, st, shown) ==
    LET l == st.loops[r]
        c == l.capturedCount + 1
        newFrame == [id |-> <<r, c>>, timestamp |-> l.time, imageUrl |-> shown,
                     prompt |-> "null", status |-> PENDING,
                     errorMessage |-> "undefined"]
        t == l.time + l.interval
        again == t < l.duration /\ ~aborted[r]
    IN [frames |-> <<newFrame>> \o st.frames,
        progress |-> Ratio(c * 50, l.totalFrames),
        loops |-> [st.loops EXCEPT ![r] =
                   IF again THEN [l EXCEPT
                      !.capturedCount = c, !.time = t, !.pc = "seeking"]
                   ELSE DoneLoop],
        video |-> IF again
                  THEN [st.video EXCEPT !.currentTime = t, !.seeking = TRUE]
                  ELSE st.video]

\* Rest of one loop iteration after the awaited seek: draw the element's
\* picture (shown), append the frame, count it, set progress, step the loop
\* variable and test the loop condition and signal.aborted of this run.
CaptureStep(r, st, shown) ==
    LET l == st.loops[r]
        c == l.capturedCount + 1
        newFrame == [id |-> <<r, c>>, timestamp |-> l.time, imageUrl |-> shown,
                     prompt |-> "null", status |-> PENDING,
                     errorMessage |-> "undefined"]
        t == l.time + l.interval
        again == t < l.duration /\ ~aborted[r]
    IN [frames |-> Append(st.frames, newFrame),
        progress |-> Ratio(c * 50, l.totalFrames),
        loops |-> [st.loops EXCEPT ![r] =
                   IF again THEN [l EXCEPT
                      !.capturedCount = c, !.time = t, !.pc = "seeking"]
                   ELSE DoneLoop],
        video |-> IF again
                  THEN [st.video EXCEPT !.currentTime = t, !.seeking = TRUE]
                  ELSE st.video]

\* The seeked event calls the onSeeked listeners in the order they were added;
\* each resolves the promise its loop awaits.
RECURSIVE ResumeListeners(_, _, _)
ResumeListeners(r, st, shown) ==
    IF r > MaxRuns THEN st
    ELSE IF loops[r].pc = "seeking"
         THEN ResumeListeners(r + 1, CaptureStep(r, st, shown), shown)
         ELSE ResumeListeners(r + 1, st, shown)

\* onloadedmetadata resolves the promise of the loop that installed it last.
LoadedMetadata ==
    /\ video.metaPending
    /\ LET r == video.metaWaiter
           l == loops[r]
           d == video.duration
           enter == 0 < d /\ ~aborted[r]
       IN /\ loops' = [loops EXCEPT ![r] =
                          IF enter
                          THEN [l EXCEPT !.duration = d,
                                         !.totalFrames = d \div l.interval,
                                         !.capturedCount = 0,
                                         !.time = 0,
                                         !.pc = "seeking"]
                          ELSE DoneLoop]
          /\ video' = [IdleVideo EXCEPT !.seeking = enter]
    /\ lastCall' = NoCall
    /\ UNCHANGED <<videoSrc, frames, isProcessing, progress, config, cur, aborted,
                   timer, calls, staleCalls, stoppedAnalyzing>>

Seeked ==
    /\ video.seeking
    /\ LET st0 == [frames |-> frames, progress |-> progress,
                   loops |-> loops, video |-> IdleVideo]
           st == ResumeListeners(1, st0, video.currentTime)
       IN /\ loops' = st.loops
          /\ video' = st.video
          /\ Commit(st.frames, isProcessing, st.progress, cur, aborted)
    /\ lastCall' = NoCall
    /\ UNCHANGED <<videoSrc, config, cur, aborted, calls, staleCalls, stoppedAnalyzing>>

\* ---- generateImagePrompt ----
\* Exponential backoff in milliseconds: Math.pow(2, retries) * 1000.
WaitTimeHalved(retries) == (2 ^ (retries - 1)) * 1000

WaitTime(retries) == (2 ^ retries) * 1000

\* The catch block's retry test, given that the error is a rate-limit one.
MayRetryAlways(retries) == TRUE

MayRetry(retries) == retries < maxRetries

\* What the external call can answer: text, a rate-limit error (429), another
\* error with a message, an error without one.
Outcomes == {"ok", "rate", "err", "errNoMsg"}

ThrownMessageRaw(o) == IF o = "errNoMsg" THEN "undefined" ELSE "message"

\* new Error(error.message || generic)
ThrownMessage(o) == IF o = "errNoMsg" THEN "generic" ELSE "message"

\* The locals of an invocation that awaits its first external call.
NewCall == [pc |-> "calling", retries |-> 0, attempts |-> 1, replies |-> <<>>,
            waits |-> <<>>, result |-> "none"]

\* The while (true) loop, run against the answers the external call gives
\* from now on.  Its awaits (the request, the delay) touch only the locals
\* of the invocation, so the loop is followed to the point where it settles
\* or has no answer left to read.
RECURSIVE ClientLoop(_, _)
ClientLoop(c, replies) ==
    IF replies = <<>> THEN c
    ELSE LET o == Head(replies)
             c1 == [c EXCEPT !.replies = Append(@, o)]
         IN
         IF o = "ok"
         THEN [c1 EXCEPT !.pc = "returned", !.result = "text"]
         ELSE IF o = "rate" /\ MayRetry(c.retries)
         THEN IF Len(replies) = 1
              THEN [c1 EXCEPT !.pc = "waiting", !.retries = @ + 1,
                              !.waits = Append(@, WaitTime(c.retries + 1))]
              ELSE ClientLoop([c1 EXCEPT !.retries = @ + 1,
                                         !.attempts = @ + 1,
                                         !.waits = Append(@, WaitTime(c.retries + 1))],
                              Tail(replies))
         ELSE [c1 EXCEPT !.pc = "thrown", !.result = ThrownMessage(o)]

generateImagePrompt(replies) == ClientLoop(NewCall, replies)

\* The answers an invocation may meet: rate-limit errors, then anything.
ReplyScripts ==
    {[i \in 1..n |-> IF i < n THEN "rate" ELSE o] : n \in 1..MaxReplies, o \in Outcomes}

\* ---- processFrame ----
\* The timer fires: the frame is set to Analyzing and the client is called;
\* it runs up to its first await, the external request.
TimerFire ==
    /\ timer # NoId
    /\ calls' = calls \cup {timer}
    /\ Commit(MarkAnalyzing(frames, timer), isProcessing, progress, cur, aborted)
    /\ lastCall' = NoCall
    /\ UNCHANGED <<videoSrc, config, cur, aborted, loops, video, staleCalls,
                   stoppedAnalyzing>>

\* The status processFrame gives the frame when the client returns or throws.
SettledStatusPending(ok) == IF ok THEN COMPLETED ELSE PENDING

SettledStatus(ok) == IF ok THEN COMPLETED ELSE ERROR

Settle(fs, id, ok, text) ==
    IF SettledStatus(ok) = COMPLETED THEN MarkCompleted(fs, id, text)
    ELSE IF SettledStatus(ok) = ERROR THEN MarkError(fs, id, text)
    ELSE [i \in 1..Len(fs) |->
             IF fs[i].id = id THEN [fs[i] EXCEPT !.status = SettledStatus(ok)]
             ELSE fs[i]]

\* The ways an invocation can settle: its locals when it returns or throws
\* having read every answer of a script.
SettledCalls ==
    {c \in {generateImagePrompt(replies) : replies \in ReplyScripts} :
        c.pc \in {"returned", "thrown"}}

\* The invocation made for frame id settles as c, and the rest of
\* processFrame (the second or third setFrames) runs.
SettleAs(id, c) ==
    /\ id \in calls
    /\ Commit(Settle(frames, id, c.pc = "returned", c.result),
              isProcessing, progress, cur, aborted)
    /\ calls' = calls \ {id}
    /\ UNCHANGED <<videoSrc, config, cur, aborted, loops, video, staleCalls,
                   stoppedAnalyzing>>

\* The pipeline never looks into the message of an error, so its runs are
\* explored with the errors that carry one.
PipelineOutcomes == {[pc |-> "returned", result |-> "text"],
                     [pc |-> "thrown", result |-> "message"]}

ProcessFrameSettles(id, pc, result) ==
    /\ \E c \in SettledCalls : c.pc = pc /\ c.result = result
    /\ SettleAs(id, [pc |-> pc, result |-> result])
    /\ lastCall' = NoCall

\* A call whose frame has been discarded settles: the setFrames of
\* processFrame finds no frame with its id and maps the list onto itself.
StaleCallSettles ==
    /\ staleCalls > 0
    /\ SettledCalls # {}
    /\ staleCalls' = staleCalls - 1
    /\ Commit(frames, isProcessing, progress, cur, aborted)
    /\ lastCall' = NoCall
    /\ UNCHANGED <<videoSrc, config, cur, aborted, loops, video, calls, stoppedAnalyzing>>

\* The same step, keeping the invocation's locals for the client's properties.
ProcessFrameSettlesTraced(id, c) ==
    /\ SettleAs(id, c)
    /\ lastCall' = c

\* ---- specification ----
Next ==
    \/ \E d \in 0..MaxDuration : handleFileSelected(d)
    \/ reset
    \/ \E v \in IntervalInputs : SetInterval(v)
    \/ \E ctxOk \in BOOLEAN : startAnalysis(ctxOk)
    \/ stopAnalysis
    \/ LoadedMetadata
    \/ Seeked
    \/ TimerFire
    \/ \E id \in calls : \E c \in PipelineOutcomes : ProcessFrameSettles(id, c.pc, c.result)
    \/ StaleCallSettles

Spec == Init /\ [][Next]_vars

\* The client's properties are about one invocation at a time: one run of the
\* pipeline, with the locals of each settled invocation kept.
NextClient ==
    \/ \E d \in 0..MaxDuration : handleFileSelected(d)
    \/ \E v \in IntervalInputs : SetInterval(v)
    \/ cur = 0 /\ startAnalysis(TRUE)
    \/ stopAnalysis
    \/ LoadedMetadata
    \/ Seeked
    \/ TimerFire
    \/ \E id \in calls : \E c \in SettledCalls : ProcessFrameSettlesTraced(id, c)

SpecClient == Init /\ [][NextClient]_vars

\* ---- properties ----
AnalyzingIdx(fs) == {i \in 1..Len(fs) : fs[i].status = ANALYZING}

\* C1: in every reachable state at most one frame of the list is Analyzing.
AtMostOneAnalyzing == Cardinality(AnalyzingIdx(frames)) <= 1

\* A frame is Analyzing while another waits as Pending in a processing run.
OneAnalyzingOthersPending ==
    /\ isProcessing
    /\ \E i, j \in 1..Len(frames) :
          frames[i].status = ANALYZING /\ frames[j].status = PENDING

ForwardStep(old, new) ==
    \/ old = PENDING /\ new = ANALYZING
    \/ old = ANALYZING /\ new = COMPLETED
    \/ old = ANALYZING /\ new = ERROR

\* C2: every status change of a frame that stays in the list is
\* Pending->Analyzing, Analyzing->Completed or Analyzing->Error; so a terminal
\* frame never changes status and no frame returns to Pending.
StatusMonotonic ==
    [][\A i \in 1..Len(frames) : \A j \in 1..Len(frames') :
          frames[i].id = frames'[j].id =>
             \/ frames'[j].status = frames[i].status
             \/ ForwardStep(frames[i].status, frames'[j].status)]_vars

\* Both terminal statuses have been reached in one list.
CompletedAndError ==
    \E i, j \in 1..Len(frames) :
        frames[i].status = COMPLETED /\ frames[j].status = ERROR

\* C3: between one start and the next start or reset no step lowers progress.
ProgressNonDecreasing ==
    [][(cur > 0 /\ cur' = cur /\ videoSrc' = videoSrc)
          => ProgressLE(progress, progress')]_vars

\* C4: whenever progress is 100 the list is non-empty and all of it terminal.
HundredOnlyWhenAllTerminal == progress = <<100, 1>> => AllCompleted(frames)

\* floor(D / interval), or 1 if that would be 0.
ExpectedFrames(d, i) == IF d \div i = 0 THEN 1 ELSE d \div i

\* C5: an uncancelled capture ends having captured floor(D / interval) frames
\* (or 1), the last at the last multiple of the interval below D, and the
\* expected total used for progress equals the number captured.
CaptureCountAsExpected ==
    [][\A r \in Runs :
          (loops[r].pc = "seeking" /\ loops'[r].pc = "done" /\ ~aborted[r]) =>
             /\ loops[r].capturedCount + 1
                   = ExpectedFrames(loops[r].duration, loops[r].interval)
             /\ loops[r].totalFrames = loops[r].capturedCount + 1
             /\ loops[r].time = loops[r].capturedCount * loops[r].interval
             /\ loops[r].time < loops[r].duration]_vars

Stopped == cur > 0 /\ aborted[cur]

\* C6: once stop has been invoked no frame is appended to the list.
NoAppendAfterStop ==
    [][(Stopped /\ cur' = cur /\ videoSrc' = videoSrc)
          => Len(frames') <= Len(frames)]_vars

\* C7 as claimed: after stop no listed frame's status, result or errorDetail
\* changes, so the outcome of the call in flight is discarded.
OutcomeDiscardedAfterStop ==
    [][(Stopped /\ cur' = cur) =>
          \A i \in 1..Len(frames) : i <= Len(frames') =>
             /\ frames'[i].status = frames[i].status
             /\ frames'[i].prompt = frames[i].prompt
             /\ frames'[i].errorMessage = frames[i].errorMessage]_vars

\* C7 as amended: after stop the only change to a listed frame is the outcome
\* of the call that was in flight at stop, applied to the frame that was
\* Analyzing then: Completed with the text or Error with the message.
OnlyInFlightOutcomeAfterStop ==
    [][(Stopped /\ cur' = cur) =>
          \A i \in 1..Len(frames) : i <= Len(frames') =>
             \/ frames'[i] = frames[i]
             \/ /\ frames[i].id \in stoppedAnalyzing
                /\ frames[i].status = ANALYZING
                /\ \/ frames'[i] = [frames[i] EXCEPT !.status = COMPLETED,
                                                     !.prompt = "text"]
                   \/ \E m \in {"message", "generic"} :
                         frames'[i] = [frames[i] EXCEPT !.status = ERROR,
                                                        !.errorMessage = m]]_vars

\* The run is stopped and the frame that was Analyzing at stop is terminal.
OutcomeAppliedAfterStop ==
    /\ Stopped
    /\ \E i \in 1..Len(frames) :
          frames[i].id \in stoppedAnalyzing /\ IsTerminal(frames[i])

\* C8: an invocation answered by two rate-limit errors and then text returns
\* the text after exactly the waits 2s, 4s, with 3 external calls, 2 retries.
RetryThenSuccess ==
    lastCall.replies = <<"rate", "rate", "ok">> =>
       /\ lastCall.pc = "returned"
       /\ lastCall.result = "text"
       /\ lastCall.waits = <<2000, 4000>>
       /\ lastCall.attempts = 3
       /\ lastCall.retries = 2

\* An invocation settled after rate, rate, ok.
SettledAfterTwoRateLimits == lastCall.replies = <<"rate", "rate", "ok">>

AllRate(replies) == \A i \in 1..Len(replies) : replies[i] = "rate"

\* C9: an invocation that only ever meets rate-limit errors throws after
\* exactly 3 retries (4 external calls, waits 2s, 4s, 8s); no invocation
\* retries more than 3 times, and every script of 4 or more answers settles it.
RetryExhaustion ==
    /\ lastCall.retries <= 3
    /\ lastCall.attempts <= 4
    /\ (lastCall.pc # "none" /\ AllRate(lastCall.replies)) =>
          /\ lastCall.pc = "thrown"
          /\ lastCall.attempts = 4
          /\ lastCall.retries = 3
          /\ lastCall.waits = <<2000, 4000, 8000>>
    /\ \A replies \in ReplyScripts :
          Len(replies) >= 4 =>
             generateImagePrompt(replies).pc \in {"returned", "thrown"}

\* An invocation has thrown after four rate-limit errors.
ThrownAfterFourRateLimits ==
    lastCall.pc = "thrown" /\ lastCall.replies = <<"rate", "rate", "rate", "rate">>

\* C10: no frame is past Pending while a frame before it in the list is still
\* Pending, so frames enter Analyzing in list order.
AnalysisFIFO ==
    \A i, j \in 1..Len(frames) :
        (i < j /\ frames[i].status = PENDING) => frames[j].status = PENDING

\* The first frame is terminal, the second Analyzing, the third Pending.
SecondAnalyzedAfterFirst ==
    /\ Len(frames) >= 3
    /\ IsTerminal(frames[1])
    /\ frames[2].status = ANALYZING
    /\ frames[3].status = PENDING

\* C11: when the analysis of a frame fails in a processing run, every other
\* frame is unchanged, and if a frame is Pending the run stays processing and
\* the first Pending frame is scheduled: its timer is armed, and the timer's
\* firing is what sets it Analyzing.
ErrorDoesNotAbort ==
    [][\A i \in 1..Len(frames) :
          (isProcessing /\ frames[i].status = ANALYZING
              /\ Len(frames') >= Len(frames) /\ frames'[i].status = ERROR) =>
             /\ \A j \in 1..Len(frames) : j # i => frames'[j] = frames[j]
             /\ (\E j \in 1..Len(frames') : frames'[j].status = PENDING) =>
                   /\ isProcessing'
                   /\ \E j \in 1..Len(frames') :
                         /\ frames'[j].status = PENDING
                         /\ \A k \in 1..(j - 1) : frames'[k].status # PENDING
                         /\ timer' = frames'[j].id]_vars

\* A frame has failed and a later frame of the processing run is Analyzing.
AnalyzingAfterAnError ==
    /\ isProcessing
    /\ \E i, j \in 1..Len(frames) :
          i < j /\ frames[i].status = ERROR /\ frames[j].status = ANALYZING

\* C12: an invocation whose external call fails with an error that is not a
\* rate-limit one throws at once: no wait follows that call, and the error
\* carries the underlying message, or the generic one when there is none;
\* when the failing call is the first there is no retry and no wait at all.
OtherFailurePropagates ==
    LET n == Len(lastCall.replies) IN
    (n > 0 /\ lastCall.replies[n] \in {"err", "errNoMsg"}) =>
       /\ lastCall.pc = "thrown"
       /\ lastCall.attempts = n
       /\ Len(lastCall.waits) = n - 1
       /\ lastCall.retries = n - 1
       /\ lastCall.result = IF lastCall.replies[n] = "err" THEN "message" ELSE "generic"
       /\ n = 1 => (lastCall.retries = 0 /\ lastCall.waits = <<>>)

\* An invocation has thrown the generic message after a single call.
ThrownGenericAtOnce ==
    lastCall.replies = <<"errNoMsg">> /\ lastCall.pc = "thrown"

\* C13: within a run the list only grows at its end, by at most one frame per
\* loop whose seek completes, each new frame Pending; the frames already
\* listed keep their position, id, timestamp and image, and at most one of
\* them changes (its status, result or errorDetail).
AppendOnly ==
    [][(cur' = cur /\ videoSrc' = videoSrc) =>
          /\ Len(frames') >= Len(frames)
          /\ Len(frames') - Len(frames)
                <= Cardinality({r \in Runs : loops[r].pc = "seeking"})
          /\ \A i \in 1..Len(frames) :
                /\ frames'[i].id = frames[i].id
                /\ frames'[i].timestamp = frames[i].timestamp
                /\ frames'[i].imageUrl = frames[i].imageUrl
          /\ \A i \in (Len(frames) + 1)..Len(frames') :
                frames'[i].status = PENDING /\ frames'[i].prompt = "null"
          /\ Cardinality({i \in 1..Len(frames) : frames'[i] # frames[i]}) <= 1
          /\ (Len(frames') > Len(frames)) =>
                \A i \in 1..Len(frames) : frames'[i] = frames[i]]_vars

\* The list has grown to three frames while its first was analysed.
GrownWhileAnalysed ==
    /\ Len(frames) >= 3
    /\ frames[1].status = COMPLETED
    /\ frames[3].status = PENDING
    /\ frames[1].timestamp < frames[2].timestamp

\* C14: once stop has been invoked no pacing timer is armed, no Pending frame
\* becomes Analyzing and no external call is started, until the next start.
NoSchedulingAfterStop ==
    /\ [](Stopped => timer = NoId)
    /\ [][(Stopped /\ cur' = cur) =>
             /\ \A i \in 1..Len(frames) :
                   (frames[i].status = PENDING /\ i <= Len(frames'))
                      => frames'[i].status # ANALYZING
             /\ calls' \subseteq calls
             /\ Cardinality(calls') + staleCalls'
                   <= Cardinality(calls) + staleCalls]_vars

\* Stop came while the timer of a Pending frame was armed: the stopped run
\* lists two or more frames of its own, all Pending (its loop adds at most one
\* after stop, and none was Analyzing at stop).
StoppedWithTimerArmed ==
    /\ Stopped
    /\ videoSrc # NoVideo
    /\ Len(frames) >= 2
    /\ \A i \in 1..Len(frames) :
          frames[i].status = PENDING /\ frames[i].id[1] = cur

\* C15: a capture step leaves progress within 0..50, and every capture loop
\* divides by a totalFrames of at least 1.
CaptureProgressInRange ==
    /\ [](\A r \in Runs : loops[r].pc = "seeking" => loops[r].totalFrames >= 1)
    /\ [][Len(frames') > Len(frames) =>
             /\ ProgressLE(<<0, 1>>, progress')
             /\ progress'[2] # 0
             /\ ProgressLE(progress', <<50, 1>>)]_vars

\* C16: when a frame becomes Completed or Error in a processing run whose
\* capture has finished, while another listed frame is not terminal, progress
\* becomes 50 + 50 * (terminal frames) / (frames).
AnalysisProgressProportional ==
    [][\A i \in 1..Len(frames) :
          (isProcessing /\ frames[i].status = ANALYZING
              /\ \A r \in Runs : loops[r].pc \notin {"meta", "seeking"}
              /\ Len(frames') >= Len(frames)
              /\ frames'[i].status \in {COMPLETED, ERROR}
              /\ \E j \in 1..Len(frames') :
                    frames'[j].status \in {PENDING, ANALYZING}) =>
             progress' =
                Ratio(50 * Len(frames')
                         + 50 * Cardinality({j \in 1..Len(frames') :
                                   frames'[j].status \in {COMPLETED, ERROR}}),
                      Len(frames'))]_vars

\* The run was marked AllDone: not processing, neither stopped nor reset.
AllDone == cur > 0 /\ ~aborted[cur] /\ ~isProcessing

\* C17: a step marks the run AllDone only on a non-empty list of Completed
\* and Error frames, setting progress to 100; and no processing, non-cancelled
\* run is left with such a list unmarked.
AllDoneExactly ==
    /\ [][(~AllDone /\ AllDone') =>
             /\ Len(frames') > 0
             /\ \A i \in 1..Len(frames') : frames'[i].status \in {COMPLETED, ERROR}
             /\ progress' = <<100, 1>>
             /\ timer' = NoId]_vars
    /\ []((isProcessing /\ ~Stopped) =>
             \/ Len(frames) = 0
             \/ \E i \in 1..Len(frames) : frames[i].status \in {PENDING, ANALYZING})

\* A run of two or more frames, one of them failed, was marked AllDone.
MarkedAllDone ==
    /\ AllDone
    /\ progress = <<100, 1>>
    /\ loops[cur].pc = "done"
    /\ Len(frames) >= 2
    /\ \A i \in 1..Len(frames) : frames[i].status \in {COMPLETED, ERROR}
    /\ \E i \in 1..Len(frames) : frames[i].status = ERROR

\* C18: a start empties the list and zeroes progress, and the list only ever
\* holds frames captured by the current run's own loop.
FreshRun ==
    /\ [][cur' # cur => (frames' = <<>> /\ progress' = <<0, 1>>)]_vars
    /\ [](\A i \in 1..Len(frames) : frames[i].id[1] = cur)

\* C19: at most one capture loop awaits a seek on the shared video element.
OneCaptureLoop ==
    Cardinality({r \in Runs : loops[r].pc = "seeking"}) <= 1

\* C20: a run is marked AllDone only when its capture loop has returned; it
\* then lists no Pending frame and no frame is appended to it.
AllDoneAfterCapture ==
    /\ [](AllDone => /\ loops[cur].pc = "done"
                     /\ \A i \in 1..Len(frames) : frames[i].status # PENDING)
    /\ [][(AllDone /\ cur' = cur) => Len(frames') <= Len(frames)]_vars

\* C21: a processing run that was not stopped always has an event of its own
\* still to come (its metadata, a seek, its pacing timer or the settling of a
\* call), so that it cannot stay processing for ever once these have resolved.
RunCanFinish ==
    (isProcessing /\ ~Stopped) =>
       \/ video.metaPending /\ video.metaWaiter = cur
       \/ loops[cur].pc = "seeking"
       \/ timer # NoId
       \/ calls # {}

\* C22: at most one external analysis call is unresolved at any time, the
\* calls issued for an earlier, discarded list included.
OneCallInFlight == Cardinality(calls) + staleCalls <= 1

====
